---- MODULE Spec2Model ----
(***************************************************************************)
(* Model of changebyus/app.py: the application factory create_app with its *)
(* configurators, the identity-loaded hook installed by configure_security *)
(* and the HTTP error handlers installed by configure_error_handlers.      *)
(***************************************************************************)
EXTENDS Integers, Sequences, FiniteSets, TLC

VARIABLES
    config,         \* content of config/config.yml (app.config and app.settings)
    users,          \* the User collection of the database
    stage,          \* "create_app" | "failed" | "serving"
    calls,          \* configurators called so far, in call order
    startupError,   \* exception that aborted create_app, "" if none
    loggerHandlers, \* handlers attached to app.logger
    appAttrs,       \* attributes set on the app object (db, mail, ...)
    beforeHooks,    \* app.before_request functions, in registration order
    errorHandlers,  \* keys registered with app.errorhandler
    appDebug,       \* app.debug
    phase,          \* position of the current request
    hookIdx,        \* index of the next before_request function to run
    session,        \* user id stored in the login session, "" if none
    identity,       \* the request's identity: name, provides, user
    g_user,         \* flask.g.user
    exc,            \* exception in flight
    errStage,       \* "user" (handle_user_exception) | "final" (handle_exception)
    handler,        \* error handler selected to run
    log,            \* records written to app.logger during the request
    response,       \* response of the request
    requests,       \* requests started so far
    logins          \* identity changes made by the view of this request

vars == <<config, users, stage, calls, startupError, loggerHandlers, appAttrs,
          beforeHooks, errorHandlers, appDebug, phase, hookIdx, session,
          identity, g_user, exc, errStage, handler, log, response, requests,
          logins>>

startupVars == <<stage, calls, startupError, loggerHandlers, appAttrs,
                 beforeHooks, errorHandlers, appDebug>>

requestVars == <<phase, hookIdx, session, identity, g_user, exc, errStage,
                 handler, log, response, requests, logins>>

----------------------------------------------------------------------------
(* Bounds *)

MaxRequests == 1
MaxLogins == 1

----------------------------------------------------------------------------
(* Configuration file *)

megabyte == 1048576
DefaultSizeMB == 25
DefaultRotations == 10
DefaultName == "flask.log"

LogKeys == {"SIZE_MB", "LEVEL", "NAME", "ROTATIONS"}

\* A value of 0 or "" stands for an empty (falsy) YAML value of the key.
SizeValues == {0, 50}
LevelValues == {"", "ERROR"}
NameValues == {"", "cbu.log"}
RotationValues == {0, 5}

\* kind: "absent" (no LOGGING key), "null" (LOGGING: with no value), "dict".
\* keys: the keys the LOGGING mapping holds.
LoggingDicts ==
    [kind : {"dict"}, keys : SUBSET LogKeys, SIZE_MB : SizeValues,
     LEVEL : LevelValues, NAME : NameValues, ROTATIONS : RotationValues]

NoDict(k) ==
    [kind |-> k, keys |-> {}, SIZE_MB |-> 0, LEVEL |-> "", NAME |-> "",
     ROTATIONS |-> 0]

\* A key that the mapping does not hold has no value to vary.
WellFormed(l) ==
    /\ ("SIZE_MB" \notin l.keys => l.SIZE_MB = 0)
    /\ ("LEVEL" \notin l.keys => l.LEVEL = "")
    /\ ("NAME" \notin l.keys => l.NAME = "")
    /\ ("ROTATIONS" \notin l.keys => l.ROTATIONS = 0)

LoggingSections ==
    {NoDict("absent"), NoDict("null")} \cup {l \in LoggingDicts : WellFormed(l)}

ConfigFiles == [DEBUG : BOOLEAN, LOGGING : LoggingSections]

----------------------------------------------------------------------------
(* configure_logging *)

NoHandler == [filename |-> "", maxBytes |-> 0, backupCount |-> 0, level |-> ""]

Raised(e) == [error |-> e, handler |-> NoHandler]
Installed(h) == [error |-> "", handler |-> h]

\* if app.settings['DEBUG']: level = logging.DEBUG else: level = logging.INFO
DebugLevel(c) == IF c.DEBUG THEN "DEBUG" ELSE "INFO"

\* The `if app.settings['LOGGING']:` block: every key is read with [], so a
\* key the mapping lacks raises KeyError; an empty mapping is falsy.
LoggingBlockError(l) ==
    IF l.kind = "dict" /\ l.keys # {} /\ l.keys # LogKeys
    THEN "KeyError" ELSE ""

level_of(c) ==
    IF c.LOGGING.kind = "dict" /\ c.LOGGING.keys # {} /\ c.LOGGING.LEVEL # ""
    THEN c.LOGGING.LEVEL ELSE DebugLevel(c)

rotations_of(c) ==
    IF c.LOGGING.kind = "dict" /\ c.LOGGING.keys # {} /\ c.LOGGING.ROTATIONS # 0
    THEN c.LOGGING.ROTATIONS ELSE DefaultRotations

\* logsize and name are computed by the code and never used.
logsize_of(c) ==
    IF c.LOGGING.kind = "dict" /\ c.LOGGING.keys # {} /\ c.LOGGING.SIZE_MB # 0
    THEN c.LOGGING.SIZE_MB * megabyte ELSE DefaultSizeMB * megabyte

name_of(c) ==
    IF c.LOGGING.kind = "dict" /\ c.LOGGING.keys # {} /\ c.LOGGING.NAME # ""
    THEN c.LOGGING.NAME ELSE DefaultName

\* RotatingFileHandler(app.settings['LOGGING']['NAME'],
\*                     maxBytes=(25 * megabyte), backupCount=rotations)
RotatingFileHandler(c) ==
    IF c.LOGGING.kind = "null" THEN Raised("TypeError")
    ELSE IF "NAME" \notin c.LOGGING.keys THEN Raised("KeyError")
    ELSE IF c.LOGGING.NAME = "" THEN Raised("IOError")
    ELSE Installed([filename |-> c.LOGGING.NAME,
                    maxBytes |-> DefaultSizeMB * megabyte,
                    backupCount |-> rotations_of(c),
                    level |-> level_of(c)])

configure_logging_result(c) ==
    IF c.LOGGING.kind = "absent" THEN Raised("KeyError")
    ELSE IF LoggingBlockError(c.LOGGING) # "" THEN Raised(LoggingBlockError(c.LOGGING))
    ELSE RotatingFileHandler(c)

----------------------------------------------------------------------------
(* create_app *)

\* The order as it would be with the security configurator ahead of mail.
CreateAppOrder_SecurityFirst ==
    <<"configure_app", "configure_logging", "configure_database",
      "configure_hook", "configure_blueprints", "configure_security",
      "configure_mail", "configure_error_handlers",
      "configure_media_uploads", "configure_encryption">>

CreateAppOrder ==
    <<"configure_app", "configure_logging", "configure_database",
      "configure_hook", "configure_blueprints", "configure_mail",
      "configure_security", "configure_error_handlers",
      "configure_media_uploads", "configure_encryption">>

\* The configurator create_app calls next.
NextCall == CreateAppOrder[Len(calls) + 1]

Calling(name) ==
    /\ stage = "create_app"
    /\ Len(calls) < Len(CreateAppOrder)
    /\ NextCall = name
    /\ calls' = Append(calls, name)

configure_app ==
    /\ Calling("configure_app")
    /\ appAttrs' = appAttrs \cup {"settings"}
    /\ UNCHANGED <<config, users, stage, startupError, loggerHandlers,
                   beforeHooks, errorHandlers, appDebug, requestVars>>

configure_logging ==
    /\ Calling("configure_logging")
    /\ LET r == configure_logging_result(config) IN
         IF r.error # ""
         THEN /\ stage' = "failed"
              /\ startupError' = r.error
              /\ UNCHANGED loggerHandlers
         ELSE /\ loggerHandlers' = loggerHandlers \cup {r.handler}
              /\ UNCHANGED <<stage, startupError>>
    /\ UNCHANGED <<config, users, appAttrs, beforeHooks, errorHandlers,
                   appDebug, requestVars>>

configure_database ==
    /\ Calling("configure_database")
    /\ appAttrs' = appAttrs \cup {"db"}
    /\ UNCHANGED <<config, users, stage, startupError, loggerHandlers,
                   beforeHooks, errorHandlers, appDebug, requestVars>>

configure_hook ==
    /\ Calling("configure_hook")
    /\ beforeHooks' = Append(beforeHooks, "hook.before_request")
    /\ UNCHANGED <<config, users, stage, startupError, loggerHandlers,
                   appAttrs, errorHandlers, appDebug, requestVars>>

configure_blueprints ==
    /\ Calling("configure_blueprints")
    /\ appAttrs' = appAttrs \cup {"blueprints"}
    /\ UNCHANGED <<config, users, stage, startupError, loggerHandlers,
                   beforeHooks, errorHandlers, appDebug, requestVars>>

configure_mail ==
    /\ Calling("configure_mail")
    /\ appAttrs' = appAttrs \cup {"mail"}
    /\ UNCHANGED <<config, users, stage, startupError, loggerHandlers,
                   beforeHooks, errorHandlers, appDebug, requestVars>>

\* Security(app, user_datastore) registers the identity loading of the
\* principal extension, which sends identity_loaded; the app's own
\* before_request function is registered after it.
configure_security ==
    /\ Calling("configure_security")
    /\ appAttrs' = appAttrs \cup {"security"}
    /\ beforeHooks' = beforeHooks \o <<"identity_loaded", "security.before_request">>
    /\ UNCHANGED <<config, users, stage, startupError, loggerHandlers,
                   errorHandlers, appDebug, requestVars>>

HttpStatuses == {"400", "403", "404", "405", "500"}

\* if app.config['DEBUG'] is False: @app.errorhandler(Exception)
RegistersCatchAll(c) == c.DEBUG = FALSE

configure_error_handlers ==
    /\ Calling("configure_error_handlers")
    /\ errorHandlers' = errorHandlers \cup HttpStatuses \cup
                        (IF RegistersCatchAll(config) THEN {"Exception"} ELSE {})
    /\ UNCHANGED <<config, users, stage, startupError, loggerHandlers,
                   appAttrs, beforeHooks, appDebug, requestVars>>

configure_media_uploads ==
    /\ Calling("configure_media_uploads")
    /\ appAttrs' = appAttrs \cup {"uploaded_photos"}
    /\ UNCHANGED <<config, users, stage, startupError, loggerHandlers,
                   beforeHooks, errorHandlers, appDebug, requestVars>>

configure_encryption ==
    /\ Calling("configure_encryption")
    /\ appAttrs' = appAttrs \cup {"ENCRYPTION.KEY"}
    /\ UNCHANGED <<config, users, stage, startupError, loggerHandlers,
                   beforeHooks, errorHandlers, appDebug, requestVars>>

\* if app.config['DEBUG'] == True: app.debug = True; return app
create_app_return ==
    /\ stage = "create_app"
    /\ Len(calls) = Len(CreateAppOrder)
    /\ appDebug' = (IF config.DEBUG = TRUE THEN TRUE ELSE appDebug)
    /\ stage' = "serving"
    /\ UNCHANGED <<config, users, calls, startupError, loggerHandlers,
                   appAttrs, beforeHooks, errorHandlers, requestVars>>

----------------------------------------------------------------------------
(* The User collection (changebyus/user/models.py is outside this file)    *)

\* hasPosts: hasattr(user, 'posts').  ann and amy share an email address.
ann == [id |-> "o1", email |-> "ann@x", roles |-> {"admin", "editor"},
        hasPosts |-> FALSE, posts |-> {}]
amy == [id |-> "o2", email |-> "ann@x", roles |-> {},
        hasPosts |-> TRUE, posts |-> {}]
bob == [id |-> "o3", email |-> "bob@x", roles |-> {"admin"},
        hasPosts |-> TRUE, posts |-> {"p1", "p2"}]

UserUniverse == {ann, amy, bob}
UserIds == {u.id : u \in UserUniverse}

\* identity.name: None, a bson.ObjectId, a str/unicode, or anything else.
NoneName == [type |-> "none", val |-> ""]
IdentityNames ==
    {NoneName}
    \cup {[type |-> "oid", val |-> i] : i \in UserIds}
    \cup {[type |-> "str", val |-> e] : e \in {"ann@x", "bob@x"}}
    \cup {[type |-> "int", val |-> "7"]}

UserNeed(id) == [need |-> "id", val |-> id]
RoleNeed(name) == [need |-> "role", val |-> name]

\* Needs an identity may hold before identity_loaded is sent.
InitialProvides == {{}, {RoleNeed("guest")}}

\* Values of g.user and identity.user.
Unset == [kind |-> "unset", id |-> ""]
None == [kind |-> "none", id |-> ""]
AnonymousUser == [kind |-> "anon", id |-> ""]
UserObj(u) == [kind |-> "user", id |-> u.id]

NoExc == [type |-> "none", code |-> ""]
Exc(t) == [type |-> t, code |-> ""]
HTTPException(code) == [type |-> "HTTPException", code |-> code]

----------------------------------------------------------------------------
(* configure_security: on_identity_loaded, load_user, before_request *)

\* The lookup as it would be if a string name were looked up by id as well.
UserObjects_ById(name, db) ==
    IF name.type \in {"oid", "str"} THEN {u \in db : u.id = name.val}
    ELSE {}

\* User.objects(id=identity.name) / User.objects(email=identity.name)
UserObjects(name, db) ==
    IF name.type = "oid" THEN {u \in db : u.id = name.val}
    ELSE IF name.type = "str" THEN {u \in db : u.email = name.val}
    ELSE {}

RoleNeeds(user) == {RoleNeed(r) : r \in user.roles}

AmbiguousLog(name) ==
    [level |-> "error", text |-> "Got more than one match for user login",
     user |-> name.val]

\* The result of the hook for one matching user.  EditBlogPostNeed is not a
\* name of the module, so the first authored post raises NameError after the
\* id and role needs were added and before identity.user and g.user are set.
SingleMatch(ident, user) ==
    LET granted == ident.provides \cup {UserNeed(user.id)} \cup RoleNeeds(user) IN
    IF user.hasPosts /\ user.posts # {}
    THEN [raised |-> "NameError", g_user |-> None,
          identity |-> [ident EXCEPT !.provides = granted], log |-> <<>>]
    ELSE [raised |-> "", g_user |-> UserObj(user),
          identity |-> [ident EXCEPT !.provides = granted, !.user = UserObj(user)],
          log |-> <<>>]

\* The hook as it would be without the test for more than one match.
on_identity_loaded_FirstMatch(ident, db) ==
    LET found == UserObjects(ident.name, db) IN
    IF ident.name.type = "none"
    THEN [raised |-> "", g_user |-> None, identity |-> ident, log |-> <<>>]
    ELSE IF ident.name.type \notin {"oid", "str"}
    THEN [raised |-> "UnboundLocalError", g_user |-> None, identity |-> ident,
          log |-> <<>>]
    ELSE IF Cardinality(found) = 0
    THEN [raised |-> "", g_user |-> None, identity |-> ident, log |-> <<>>]
    ELSE SingleMatch(ident, CHOOSE u \in found : TRUE)

\* g.user = None comes first, so every outcome leaves g.user None unless
\* the last line of the hook assigns the user.
on_identity_loaded(ident, db) ==
    LET found == UserObjects(ident.name, db) IN
    IF ident.name.type = "none"
    THEN [raised |-> "", g_user |-> None, identity |-> ident, log |-> <<>>]
    ELSE IF ident.name.type \notin {"oid", "str"}
    THEN [raised |-> "UnboundLocalError", g_user |-> None, identity |-> ident,
          log |-> <<>>]
    ELSE IF Cardinality(found) > 1
    THEN [raised |-> "Exception", g_user |-> None, identity |-> ident,
          log |-> <<AmbiguousLog(ident.name)>>]
    ELSE IF Cardinality(found) = 0
    THEN [raised |-> "", g_user |-> None, identity |-> ident, log |-> <<>>]
    ELSE SingleMatch(ident, CHOOSE u \in found : TRUE)

\* User.objects.with_id(userid); the login manager turns None into the
\* anonymous user.
load_user(userid, db) ==
    IF \E u \in db : u.id = userid
    THEN UserObj(CHOOSE u \in db : u.id = userid)
    ELSE None

current_user ==
    IF session = "" \/ load_user(session, users) = None
    THEN AnonymousUser ELSE load_user(session, users)

----------------------------------------------------------------------------
(* One request *)

NoResponse == [template |-> "", error |-> ""]
NoIdentity == [name |-> NoneName, provides |-> {}, user |-> Unset]

RequestOver == phase \in {"idle", "done", "propagated", "crashed"}

StartRequest ==
    /\ stage = "serving"
    /\ RequestOver
    /\ requests < MaxRequests
    /\ requests' = requests + 1
    /\ \E s \in {""} \cup UserIds, n \in IdentityNames, p \in InitialProvides :
         /\ session' = s
         /\ identity' = [name |-> n, provides |-> p, user |-> Unset]
    /\ g_user' = Unset
    /\ phase' = "before_request"
    /\ hookIdx' = 1
    /\ exc' = NoExc
    /\ errStage' = "user"
    /\ handler' = ""
    /\ log' = <<>>
    /\ response' = NoResponse
    /\ logins' = 0
    /\ UNCHANGED <<config, users, startupVars>>

RunningHook(name) ==
    /\ phase = "before_request"
    /\ hookIdx <= Len(beforeHooks)
    /\ beforeHooks[hookIdx] = name

\* After the last before_request function the view is dispatched.
HookDone ==
    /\ hookIdx' = hookIdx + 1
    /\ phase' = IF hookIdx = Len(beforeHooks) THEN "view" ELSE "before_request"

\* configure_hook's before_request: pass
hook_before_request ==
    /\ RunningHook("hook.before_request")
    /\ HookDone
    /\ UNCHANGED <<config, users, startupVars, session, identity, g_user, exc,
                   errStage, handler, log, response, requests, logins>>

\* The effect of sending identity_loaded for identity ident.
SendIdentityLoaded(ident, onward) ==
    LET r == on_identity_loaded(ident, users) IN
    /\ g_user' = r.g_user
    /\ identity' = r.identity
    /\ log' = log \o r.log
    /\ IF r.raised # ""
       THEN /\ exc' = Exc(r.raised)
            /\ errStage' = "user"
            /\ phase' = "error"
            /\ UNCHANGED hookIdx
       ELSE /\ onward
            /\ UNCHANGED <<exc, errStage>>

\* identity_loaded sent while the request is set up.
identity_loaded_before_request ==
    /\ RunningHook("identity_loaded")
    /\ SendIdentityLoaded(identity, HookDone)
    /\ UNCHANGED <<config, users, startupVars, session, handler, response,
                   requests, logins>>

\* configure_security's before_request: g.user = current_user
before_request ==
    /\ RunningHook("security.before_request")
    /\ g_user' = current_user
    /\ HookDone
    /\ UNCHANGED <<config, users, startupVars, session, identity, exc,
                   errStage, handler, log, response, requests, logins>>

\* A view logs a user in: the identity changes and identity_loaded is sent
\* again, inside the view.
identity_loaded_in_view ==
    /\ phase = "view"
    /\ logins < MaxLogins
    /\ logins' = logins + 1
    /\ \E n \in IdentityNames :
         SendIdentityLoaded([name |-> n, provides |-> {}, user |-> Unset],
                            UNCHANGED <<phase, hookIdx>>)
    /\ UNCHANGED <<config, users, startupVars, session, handler, response,
                   requests>>

ViewReturns ==
    /\ phase = "view"
    /\ phase' = "done"
    /\ response' = [template |-> "view", error |-> ""]
    /\ UNCHANGED <<config, users, startupVars, hookIdx, session, identity,
                   g_user, exc, errStage, handler, log, requests, logins>>

\* abort(status), or any other exception raised by a view.
ViewRaises ==
    /\ phase = "view"
    /\ phase' = "error"
    /\ errStage' = "user"
    /\ \E e \in {HTTPException(c) : c \in HttpStatuses} \cup {Exc("ValueError")} :
         exc' = e
    /\ UNCHANGED <<config, users, startupVars, hookIdx, session, identity,
                   g_user, handler, log, response, requests, logins>>

----------------------------------------------------------------------------
(* configure_error_handlers: dispatch of an exception to the handlers *)

\* An HTTP exception goes to the handler of its status; any other exception
\* goes to the handler registered for Exception, if there is one.
handle_user_exception ==
    /\ phase = "error"
    /\ errStage = "user"
    /\ IF exc.type = "HTTPException" /\ exc.code \in errorHandlers
       THEN /\ handler' = exc.code
            /\ phase' = "handler"
            /\ UNCHANGED errStage
       ELSE IF "Exception" \in errorHandlers
       THEN /\ handler' = "Exception"
            /\ phase' = "handler"
            /\ UNCHANGED errStage
       ELSE /\ errStage' = "final"
            /\ UNCHANGED <<handler, phase>>
    /\ UNCHANGED <<config, users, startupVars, hookIdx, session, identity,
                   g_user, exc, log, response, requests, logins>>

\* An exception no handler took: re-raised in debug mode, otherwise given to
\* the handler of status 500.
handle_exception ==
    /\ phase = "error"
    /\ errStage = "final"
    /\ IF appDebug
       THEN /\ phase' = "propagated"
            /\ UNCHANGED handler
       ELSE /\ handler' = "500"
            /\ phase' = "handler"
    /\ UNCHANGED <<config, users, startupVars, hookIdx, session, identity,
                   g_user, exc, errStage, log, response, requests, logins>>

----------------------------------------------------------------------------
(* configure_error_handlers: the handlers *)

ErrorText(h) ==
    CASE h = "400" -> "Sorry, this page is missing."
      [] h = "403" -> "Sorry, forbidden request."
      [] h = "404" -> "Sorry, this page doesn't exist."
      [] h = "405" -> "Sorry, you're not authorized to see this page."
      [] h = "500" -> "Sorry, there was a server error."
      [] h = "Exception" -> "Sorry, there was a server error."

LogPrefix(h) ==
    CASE h = "400" -> "400 error occured"
      [] h = "403" -> "403 error occured"
      [] h = "405" -> "405 error occured"
      [] h = "500" -> "500 error occured"
      [] h = "Exception" -> "Exception occured"

\* str(error)
ErrorStr(e) == IF e.type = "HTTPException" THEN e.code ELSE e.type

\* g.user.is_anonymous() exists on user objects only.
IsUserObject(u) == u.kind \in {"anon", "user"}

\* '' if g.user.is_anonymous() else ' user[' + str(g.user.id) + '] '
userStr(u) == IF u.kind = "anon" THEN "" ELSE u.id

render_template(h) == [template |-> "error.html", error |-> ErrorText(h)]

\* An exception raised by a handler replaces the one it was handling.
HandlerRaises(e) ==
    /\ exc' = Exc(e)
    /\ IF errStage = "user"
       THEN /\ errStage' = "final"
            /\ phase' = "error"
       ELSE /\ phase' = "crashed"
            /\ UNCHANGED errStage
    /\ UNCHANGED <<log, response>>

\* The body shared by every handler but not_found.
LoggingHandler(h) ==
    /\ IF ~IsUserObject(g_user)
       THEN HandlerRaises("AttributeError")
       ELSE /\ log' = log \o
                  <<[level |-> "error", text |-> LogPrefix(h), user |-> userStr(g_user)],
                    [level |-> "exception", text |-> ErrorStr(exc), user |-> ""]>>
            /\ response' = render_template(h)
            /\ phase' = "done"
            /\ UNCHANGED <<exc, errStage>>
    /\ UNCHANGED <<config, users, startupVars, hookIdx, session, identity,
                   g_user, handler, requests, logins>>

bad_request ==
    /\ phase = "handler"
    /\ handler = "400"
    /\ LoggingHandler("400")

forbidden_request ==
    /\ phase = "handler"
    /\ handler = "403"
    /\ LoggingHandler("403")

not_found ==
    /\ phase = "handler"
    /\ handler = "404"
    /\ log' = Append(log, [level |-> "error", text |-> ErrorStr(exc), user |-> ""])
    /\ response' = render_template("404")
    /\ phase' = "done"
    /\ UNCHANGED <<config, users, startupVars, hookIdx, session, identity,
                   g_user, exc, errStage, handler, requests, logins>>

no_permission ==
    /\ phase = "handler"
    /\ handler = "405"
    /\ LoggingHandler("405")

internal_server_error ==
    /\ phase = "handler"
    /\ handler = "500"
    /\ LoggingHandler("500")

internal_exception_handler ==
    /\ phase = "handler"
    /\ handler = "Exception"
    /\ LoggingHandler("Exception")

----------------------------------------------------------------------------
(* Specification *)

Init ==
    /\ config \in ConfigFiles
    /\ users \in SUBSET UserUniverse
    /\ stage = "create_app"
    /\ calls = <<>>
    /\ startupError = ""
    /\ loggerHandlers = {}
    /\ appAttrs = {}
    /\ beforeHooks = <<>>
    /\ errorHandlers = {}
    /\ appDebug = FALSE
    /\ phase = "idle"
    /\ hookIdx = 1
    /\ session = ""
    /\ identity = NoIdentity
    /\ g_user = Unset
    /\ exc = NoExc
    /\ errStage = "user"
    /\ handler = ""
    /\ log = <<>>
    /\ response = NoResponse
    /\ requests = 0
    /\ logins = 0

Next ==
    \/ configure_app
    \/ configure_logging
    \/ configure_database
    \/ configure_hook
    \/ configure_blueprints
    \/ configure_mail
    \/ configure_security
    \/ configure_error_handlers
    \/ configure_media_uploads
    \/ configure_encryption
    \/ create_app_return
    \/ StartRequest
    \/ hook_before_request
    \/ identity_loaded_before_request
    \/ before_request
    \/ identity_loaded_in_view
    \/ ViewReturns
    \/ ViewRaises
    \/ handle_user_exception
    \/ handle_exception
    \/ bad_request
    \/ forbidden_request
    \/ not_found
    \/ no_permission
    \/ internal_server_error
    \/ internal_exception_handler

Spec == Init /\ [][Next]_vars

----------------------------------------------------------------------------
(* Properties of the identity-loaded hook *)

\* A step in which identity_loaded is sent and on_identity_loaded runs.
IdentityLoadStep ==
    \/ /\ RunningHook("identity_loaded")
       /\ (hookIdx' # hookIdx \/ phase' # phase)
    \/ /\ phase = "view"
       /\ logins' = logins + 1

\* The users the name of the identity stands for.
Matches(name) ==
    {u \in users : \/ name.type = "oid" /\ u.id = name.val
                   \/ name.type = "str" /\ u.email = name.val}

\* The needs of the identity when identity_loaded is sent: those of the
\* request's identity, none for an identity a view has just created.
ProvidesBefore == IF phase = "view" THEN {} ELSE identity.provides

HookRaised == phase' = "error"

\* C1: when more than one user matches the name of the identity, the hook
\* logs the error, raises, leaves g.user None and grants nothing.
C1_AmbiguousRaises ==
    [][(IdentityLoadStep /\ identity'.name.type # "none"
          /\ Cardinality(Matches(identity'.name)) > 1)
       => /\ HookRaised
          /\ exc' = Exc("Exception")
          /\ log' = Append(log, AmbiguousLog(identity'.name))
          /\ g_user' = None
          /\ identity'.provides = ProvidesBefore
          /\ identity'.user = Unset]_vars

C1_Witness ==
    /\ phase = "error"
    /\ exc = Exc("Exception")
    /\ Cardinality(Matches(identity.name)) > 1
    /\ g_user = None
    /\ Len(log) = 1 /\ log[1].level = "error"

\* C2: the hook resets g.user to None; when it returns, g.user is a user
\* exactly when one user matched, and then the identity holds the id need
\* and the role needs of that user and identity.user and g.user are that
\* user; with no match or a None name the needs are unchanged.
C2_LoadedUser ==
    [][IdentityLoadStep =>
        LET found == Matches(identity'.name) IN
        /\ g_user' = None \/ (~HookRaised /\ g_user'.kind = "user")
        /\ ~HookRaised =>
             /\ g_user'.kind = "user" <=> Cardinality(found) = 1
             /\ Cardinality(found) = 1 =>
                  \E u \in found :
                     /\ g_user' = UserObj(u)
                     /\ identity'.user = UserObj(u)
                     /\ [need |-> "id", val |-> u.id] \in identity'.provides
                     /\ \A r \in u.roles :
                          [need |-> "role", val |-> r] \in identity'.provides
             /\ Cardinality(found) = 0 =>
                  /\ g_user' = None
                  /\ identity'.provides = ProvidesBefore]_vars

C2_Witness ==
    /\ phase \in {"before_request", "view"}
    /\ g_user.kind = "user"
    /\ identity.user = g_user
    /\ Cardinality(Matches(identity.name)) = 1
    /\ [need |-> "id", val |-> g_user.id] \in identity.provides
    /\ \E n \in identity.provides : n.need = "role" /\ n.val = "admin"

\* C3: when the one matching user has authored posts, the hook records an
\* edit need for each post and returns with g.user set to the user.
C3_EditNeeds ==
    [][(IdentityLoadStep /\ Cardinality(Matches(identity'.name)) = 1)
       => \A u \in Matches(identity'.name) :
            (u.hasPosts /\ u.posts # {}) =>
               /\ ~HookRaised
               /\ g_user' = UserObj(u)
               /\ \A p \in u.posts :
                    [need |-> "edit", val |-> p] \in identity'.provides]_vars

\* C10: with no match or one match, and for a name of any type, the hook
\* returns without raising.
C10_RaisesOnlyWhenAmbiguous ==
    [][(IdentityLoadStep /\ Cardinality(Matches(identity'.name)) <= 1)
       => ~HookRaised]_vars

----------------------------------------------------------------------------
(* Properties of the error handlers *)

\* A step in which the handler of status c runs.
HandlerStep(c) == phase = "handler" /\ handler = c /\ phase' # phase

\* The records the step added to the log.
Logged == {log'[i] : i \in (Len(log) + 1)..Len(log')}

\* C4: the handler of each of the statuses 400, 403, 404, 405 and 500 logs
\* an annotated error message with the id of a known user, logs the
\* exception, and renders the error page with a string of its own.
C4_HandlersLogAndRender ==
    [][\A c \in HttpStatuses :
         HandlerStep(c) =>
            /\ \E r \in Logged :
                 /\ r.level = "error"
                 /\ g_user.kind = "user" => r.user = g_user.id
            /\ \E r \in Logged : r.level = "exception"
            /\ response'.template = "error.html"
            /\ response'.error = ErrorText(c)
            /\ \A d \in HttpStatuses \ {c} : ErrorText(d) # ErrorText(c)]_vars

\* A request that an exception other than an HTTP error has ended.
EndedByException ==
    /\ phase \in {"done", "propagated", "crashed"}
    /\ exc.type \notin {"none", "HTTPException"}

\* C5: the catch-all handler is registered exactly when DEBUG is off; with
\* DEBUG off an otherwise unhandled exception is logged and answered with
\* the error page, with DEBUG on it propagates.
C5_CatchAllInProduction ==
    /\ stage = "serving" => ("Exception" \in errorHandlers <=> ~config.DEBUG)
    /\ EndedByException =>
         IF config.DEBUG
         THEN phase = "propagated"
         ELSE /\ phase = "done"
              /\ response.template = "error.html"
              /\ \E i \in DOMAIN log : log[i].level = "exception"

\* Handlers that read g.user.
ReadsUser == {"400", "403", "405", "500", "Exception"}

\* C9: whenever a handler that reads g.user runs, g.user is a user object
\* (anonymous or real), never None.
C9_HandlerSeesUser ==
    (phase = "handler" /\ handler \in ReadsUser) => g_user.kind \in {"anon", "user"}

----------------------------------------------------------------------------
(* Properties of configure_logging *)

LoggingConfigured == Len(calls) >= 2

\* The key is in the LOGGING section and has a value.
IsSet(key) ==
    /\ config.LOGGING.kind = "dict"
    /\ key \in config.LOGGING.keys
    /\ CASE key = "SIZE_MB" -> config.LOGGING.SIZE_MB # 0
         [] key = "LEVEL" -> config.LOGGING.LEVEL # ""
         [] key = "NAME" -> config.LOGGING.NAME # ""
         [] key = "ROTATIONS" -> config.LOGGING.ROTATIONS # 0

\* C6: with NAME, SIZE_MB and ROTATIONS set, the installed handler writes to
\* NAME, keeps ROTATIONS backups and rolls over at SIZE_MB megabytes.
C6_ConfiguredHandler ==
    (LoggingConfigured /\ IsSet("NAME") /\ IsSet("SIZE_MB") /\ IsSet("ROTATIONS"))
    => \A h \in loggerHandlers :
         /\ h.filename = config.LOGGING.NAME
         /\ h.backupCount = config.LOGGING.ROTATIONS
         /\ h.maxBytes = config.LOGGING.SIZE_MB * 1048576

\* C7: configure_logging never fails; every key that is absent or empty
\* falls back to its default (flask.log, 25 MB, 10 rotations, DEBUG or INFO
\* by the debug flag), and LEVEL, when set, overrides the level.
C7_DefaultsWhenAbsent ==
    LoggingConfigured =>
       /\ stage # "failed"
       /\ \E h \in loggerHandlers :
            /\ h.filename = IF IsSet("NAME") THEN config.LOGGING.NAME ELSE "flask.log"
            /\ h.maxBytes = IF IsSet("SIZE_MB")
                            THEN config.LOGGING.SIZE_MB * 1048576
                            ELSE 25 * 1048576
            /\ h.backupCount = IF IsSet("ROTATIONS")
                               THEN config.LOGGING.ROTATIONS ELSE 10
            /\ h.level = IF IsSet("LEVEL") THEN config.LOGGING.LEVEL
                         ELSE IF config.DEBUG THEN "DEBUG" ELSE "INFO"

----------------------------------------------------------------------------
(* Properties of create_app *)

IsPrefix(s, t) == Len(s) <= Len(t) /\ \A i \in 1..Len(s) : s[i] = t[i]

\* C8: create_app calls the configurators in the order config loader,
\* logger, database, request hook, blueprints, mail, security, error
\* handlers, uploads, encryption: at every point the calls made are a prefix
\* of this order, and all ten were made, once each, when create_app returns.
C8_CallOrder ==
    LET order == <<"configure_app", "configure_logging", "configure_database",
                   "configure_hook", "configure_blueprints", "configure_mail",
                   "configure_security", "configure_error_handlers",
                   "configure_media_uploads", "configure_encryption">>
    IN /\ IsPrefix(calls, order)
       /\ stage = "serving" => calls = order

C8_Witness ==
    /\ stage = "serving"
    /\ Len(calls) = 10
    /\ calls[8] = "configure_error_handlers"
    /\ calls[10] = "configure_encryption"

\* C8 as stated: the error handlers are configured last, after uploads and
\* encryption.
C8_ErrorHandlersLast ==
    stage = "serving" =>
       calls = <<"configure_app", "configure_logging", "configure_database",
                 "configure_hook", "configure_blueprints", "configure_mail",
                 "configure_security", "configure_media_uploads",
                 "configure_encryption", "configure_error_handlers">>

====
